---- MODULE Spec2Model ----
(***************************************************************************)
(* Model of the persistent record store of nihon.rs                        *)
(* (src/src/services/database.rs, src/src/models/flashcard.rs,             *)
(* src/src/models/deck.rs).                                                *)
(*                                                                         *)
(* Timestamps are counted in whole days; ease factors in hundredths        *)
(* (2.5 is 250).  Keys are byte strings, written as sequences of digits.   *)
(***************************************************************************)
EXTENDS Integers, Sequences, FiniteSets, Bags, TLC

\* ------------------------------------------------------------------ bounds
MaxOps == 3
MaxClock == 1
MaxConcOps == 4

\* ------------------------------------------------------------- input sets
Keys == {<<1>>, <<1, 0>>}
KeyOrder == << <<1>>, <<1, 0>> >>
CardTypes == {"Vocabulary", "Grammar"}
Names == {"n1", "n2"}
Values == {"v1", "v2"}
Quality == {2, 5}
Procs == {"p1", "p2"}

None == [kind |-> "None"]

VARIABLES db, clock, last, nops, pc, tx, args, seen, snaps,
          word_segments, selected_word_index, loading_state, question_input,
          qa_history, tasks,
          current_index, show_romaji, show_examples, quiz_state, score,
          total_answered

learningVars ==
    <<word_segments, selected_word_index, loading_state, question_input,
      qa_history, tasks>>

practiceVars ==
    <<current_index, show_romaji, show_examples, quiz_state, score,
      total_answered>>

vars ==
    <<db, clock, last, nops, pc, tx, args, seen, snaps, learningVars,
      practiceVars>>

\* ------------------------------------------------------- record construction
EmptyTable == [k \in Keys |-> None]

EmptyDb == [cards |-> EmptyTable, decks |-> EmptyTable, texts |-> EmptyTable,
            cache |-> EmptyTable, settings |-> EmptyTable]

SRSData(e, i, r, nr, n) ==
    [ease_factor |-> e, interval |-> i, repetitions |-> r,
     next_review |-> nr, is_new |-> n]

\* SRS states a caller of update_card_srs may pass at time `now`
SRSInputs(now) ==
    { SRSData(260, 1, 1, now + 1, FALSE),
      SRSData(270, 6, 2, now + 6, FALSE),
      SRSData(218, 1, 0, now + 1, FALSE),
      SRSData(120, 0, 3, now, TRUE) }

FreshSRS_due_tomorrow(now) == SRSData(250, 1, 0, now + 1, TRUE)

FreshSRS(now) == SRSData(250, 0, 0, now, TRUE)

FlashCard(id, deck_id, card_type, srs_data, created_at, updated_at) ==
    [id |-> id, deck_id |-> deck_id, card_type |-> card_type,
     srs_data |-> srs_data, created_at |-> created_at, updated_at |-> updated_at]

Deck(id, name, description, created_at, updated_at) ==
    [id |-> id, created_at |-> created_at, updated_at |-> updated_at,
     name |-> name, description |-> description]

LearningText(id, title, original_text, created_at, updated_at) ==
    [id |-> id, created_at |-> created_at, updated_at |-> updated_at,
     title |-> title, original_text |-> original_text,
     tokenized_segments |-> <<>>]

CachedResponse(cache_key, response, created_at) ==
    [created_at |-> created_at, cache_key |-> cache_key, response |-> response]

UserSetting(key, value, updated_at) ==
    [updated_at |-> updated_at, key |-> key, value |-> value]

\* ------------------------------------------------ transaction primitives
Ok(d) == [db |-> d, ok |-> TRUE]
Err(d) == [db |-> d, ok |-> FALSE]

rw_insert_conflict_never(tbl, key) == FALSE

rw_insert_conflict(tbl, key) == tbl[key] # None

rw_insert(d, kind, key, rec) ==
    IF rw_insert_conflict(d[kind], key)
    THEN Err(d)
    ELSE Ok([d EXCEPT ![kind][key] = rec])

rw_update(d, kind, key, old, new) ==
    IF d[kind][key] = None \/ d[kind][key] # old
    THEN Err(d)
    ELSE Ok([d EXCEPT ![kind][key] = new])

rw_upsert_keep(d, kind, key, rec) ==
    IF d[kind][key] # None THEN Ok(d) ELSE Ok([d EXCEPT ![kind][key] = rec])

rw_upsert(d, kind, key, rec) == Ok([d EXCEPT ![kind][key] = rec])

get_primary(d, kind, key) == d[kind][key]

IsPrefix(p, s) == Len(p) <= Len(s) /\ SubSeq(s, 1, Len(p)) = p

\* ------------------------------------------------------- handler bodies
\* Each body maps the store seen by the transaction to the outcome of the
\* handler up to (not including) commit.
save_card_card(id, deck_id, card_type, now) ==
    FlashCard(id, deck_id, card_type, FreshSRS(now), now, now)

save_card_body_upsert(d, id, deck_id, card_type, now) ==
    rw_upsert(d, "cards", id, save_card_card(id, deck_id, card_type, now))

save_card_body(d, id, deck_id, card_type, now) ==
    rw_insert(d, "cards", id, save_card_card(id, deck_id, card_type, now))

update_card_srs_new_recreated(old_card, srs_data, now) ==
    [old_card EXCEPT !.srs_data = srs_data, !.updated_at = now, !.created_at = now]

update_card_srs_new_stale(old_card, srs_data, now) ==
    [old_card EXCEPT !.srs_data = srs_data]

update_card_srs_new(old_card, srs_data, now) ==
    [old_card EXCEPT !.srs_data = srs_data, !.updated_at = now]

update_card_srs_body_upsert(d, id, srs_data, now) ==
    LET old_card == get_primary(d, "cards", id) IN
    rw_upsert(d, "cards", id,
              IF old_card = None
              THEN FlashCard(id, id, "Vocabulary", srs_data, now, now)
              ELSE update_card_srs_new(old_card, srs_data, now))

update_card_srs_body(d, id, srs_data, now) ==
    LET old_card == get_primary(d, "cards", id) IN
    IF old_card = None
    THEN Err(d)
    ELSE rw_update(d, "cards", id, old_card,
                   update_card_srs_new(old_card, srs_data, now))

create_deck_body_shared_keys(d, id, name, description, now) ==
    IF d.cards[id] # None
    THEN Err(d)
    ELSE rw_insert(d, "decks", id, Deck(id, name, description, now, now))

create_deck_body(d, id, name, description, now) ==
    rw_insert(d, "decks", id, Deck(id, name, description, now, now))

save_text_body(d, text) == rw_insert(d, "texts", text.id, text)

save_settings_body(d, key, value, now) ==
    rw_upsert(d, "settings", key, UserSetting(key, value, now))

cache_llm_response_body(d, key, response, now) ==
    rw_upsert(d, "cache", key, CachedResponse(key, response, now))

\* --------------------------------------------------------------- reads
StoredSeq(tbl) ==
    LET ks == SelectSeq(KeyOrder, LAMBDA k : tbl[k] # None)
    IN [i \in 1..Len(ks) |-> tbl[ks[i]]]

get_deck_cards_match(card, deck_id) == IsPrefix(deck_id, card.deck_id)

get_deck_cards_read(d, deck_id) ==
    SelectSeq(StoredSeq(d.cards), LAMBDA c : get_deck_cards_match(c, deck_id))

Count(s, P(_)) == Len(SelectSeq(s, P))

DeckInfo(deck, cards, now) ==
    [id |-> deck.id, name |-> deck.name,
     total_cards |-> Len(cards),
     due_cards |-> Count(cards, LAMBDA c : c.srs_data.next_review <= now),
     new_cards |-> Count(cards, LAMBDA c : c.srs_data.is_new)]

load_decks_read(d, now) ==
    LET decks == StoredSeq(d.decks)
    IN [i \in 1..Len(decks) |->
          DeckInfo(decks[i], get_deck_cards_read(d, decks[i].id), now)]

PreviewLen == 100

Take_unbounded(s, n) == s

Take(s, n) == SubSeq(s, 1, IF Len(s) < n THEN Len(s) ELSE n)

TextInfo(t) ==
    [id |-> t.id, created_at |-> t.created_at,
     title |-> t.title,
     preview |-> Take(t.original_text, PreviewLen)]

load_texts_read(d) ==
    LET texts == StoredSeq(d.texts)
    IN [i \in 1..Len(texts) |-> TextInfo(texts[i])]

get_text_read_preview(d, id) ==
    LET t == get_primary(d, "texts", id)
    IN IF t = None THEN None ELSE [t EXCEPT !.original_text = Take(@, 1)]

get_text_read(d, id) == get_primary(d, "texts", id)

load_settings_read_default(d, key) ==
    LET s == get_primary(d, "settings", key)
    IN IF s = None THEN [value |-> ""] ELSE [value |-> s.value]

load_settings_read(d, key) ==
    LET s == get_primary(d, "settings", key)
    IN IF s = None THEN None ELSE [value |-> s.value]

get_cached_response_read(d, key) ==
    LET c == get_primary(d, "cache", key)
    IN IF c = None THEN None ELSE [value |-> c.response]

\* ------------------------------------------------------------ call log
Call(op, key, q, res, val) ==
    [key |-> key, op |-> op, q |-> q, res |-> res, val |-> val]

Res(r) == IF r.ok THEN "Ok" ELSE "QueryError"

NoCall == Call("none", <<>>, 0, "Ok", None)

Idle == [p \in Procs |-> "idle"]
NoTx == [p \in Procs |-> None]
NoArgs == [p \in Procs |-> None]
NoSeen == [p \in Procs |-> <<>>]
NoSnaps == [p \in Procs |-> {}]

\* ---------------------------------------------------- view state at start
Some(v) == [kind |-> "Some", value |-> v]

Surfaces == <<"kyou", "wa", "nihongo", "wo", "benkyou", "shimasu", "maru">>

WordSegment(surface, explanation, is_selected) ==
    [surface |-> surface, explanation |-> explanation,
     is_selected |-> is_selected]

LearningViewDefault ==
    /\ word_segments
         = [i \in 1..Len(Surfaces) |-> WordSegment(Surfaces[i], None, FALSE)]
    /\ selected_word_index = None
    /\ loading_state = "Idle"
    /\ question_input = <<>>
    /\ qa_history = <<>>
    /\ tasks = EmptyBag

NumCards == 3

PracticeViewDefault ==
    /\ current_index = 0
    /\ show_romaji = FALSE
    /\ show_examples = FALSE
    /\ quiz_state = [kind |-> "Question"]
    /\ score = 0
    /\ total_answered = 0

ViewUnchanged == UNCHANGED <<learningVars, practiceVars>>

\* ------------------------------------------------------------ initial state
Init ==
    /\ db = EmptyDb
    /\ clock = 0
    /\ last = NoCall
    /\ nops = 0
    /\ pc = Idle
    /\ tx = NoTx
    /\ args = NoArgs
    /\ seen = NoSeen
    /\ snaps = NoSnaps
    /\ LearningViewDefault
    /\ PracticeViewDefault

ConcUnchanged == UNCHANGED <<pc, tx, args, seen, snaps>> /\ ViewUnchanged

\* What a load_decks call in progress could have observed: every committed
\* store and every clock value that existed since the call began.
Observe(d, now) ==
    [p \in Procs |->
        IF pc[p] = "decks" THEN snaps[p] \cup {[db |-> d, clock |-> now]}
        ELSE snaps[p]]

\* A write handler run start to finish: begin, body, commit on success.
Write(op, key, q, r) ==
    /\ nops < MaxOps
    /\ nops' = nops + 1
    /\ db' = IF r.ok THEN r.db ELSE db
    /\ last' = Call(op, key, q, Res(r), None)
    /\ UNCHANGED clock
    /\ ConcUnchanged

\* A write handler whose argument `val` (the value or record written) is
\* kept in the call log.
WriteVal(op, key, val, r) ==
    /\ nops < MaxOps
    /\ nops' = nops + 1
    /\ db' = IF r.ok THEN r.db ELSE db
    /\ last' = Call(op, key, 0, Res(r), val)
    /\ UNCHANGED clock
    /\ ConcUnchanged

\* A read handler run start to finish.
Read(op, key, val) ==
    /\ nops < MaxOps
    /\ nops' = nops + 1
    /\ last' = Call(op, key, 0, "Ok", val)
    /\ UNCHANGED <<db, clock>>
    /\ ConcUnchanged

Tick ==
    /\ clock < MaxClock
    /\ clock' = clock + 1
    /\ snaps' = Observe(db, clock')
    /\ UNCHANGED <<db, last, nops, pc, tx, args, seen>>
    /\ ViewUnchanged

save_card ==
    \E id \in Keys, deck_id \in Keys, card_type \in CardTypes :
        Write("save_card", id, 0, save_card_body(db, id, deck_id, card_type, clock))

\* q is the review outcome the caller is recording; the handler receives
\* only the SRS state the caller passes.
update_card_srs ==
    \E id \in Keys, q \in Quality, srs_data \in SRSInputs(clock) :
        Write("update_card_srs", id, q, update_card_srs_body(db, id, srs_data, clock))

get_deck_cards ==
    \E deck_id \in Keys :
        Read("get_deck_cards", deck_id, get_deck_cards_read(db, deck_id))

create_deck ==
    \E id \in Keys, name \in Names :
        Write("create_deck", id, 0, create_deck_body(db, id, name, "desc", clock))

load_decks == Read("load_decks", <<>>, load_decks_read(db, clock))

\* The text a caller saves under a title: one longer than a preview, one
\* shorter.
LongTextLen == 101

TextOf(title) ==
    IF title = "n1" THEN [i \in 1..LongTextLen |-> (i % 2) + 1] ELSE <<1, 2>>

save_text ==
    \E id \in Keys, title \in Names :
        LET text == LearningText(id, title, TextOf(title), clock, clock)
        IN WriteVal("save_text", id, text, save_text_body(db, text))

load_texts == Read("load_texts", <<>>, load_texts_read(db))

get_text == \E id \in Keys : Read("get_text", id, get_text_read(db, id))

save_settings ==
    \E key \in Keys, value \in Values :
        WriteVal("save_settings", key, [value |-> value],
                 save_settings_body(db, key, value, clock))

load_settings ==
    \E key \in Keys : Read("load_settings", key, load_settings_read(db, key))

cache_llm_response ==
    \E key \in Keys, response \in Values :
        WriteVal("cache_llm_response", key, [value |-> response],
                 cache_llm_response_body(db, key, response, clock))

get_cached_response ==
    \E key \in Keys :
        Read("get_cached_response", key, get_cached_response_read(db, key))

Next ==
    \/ Tick
    \/ save_card
    \/ update_card_srs
    \/ get_deck_cards
    \/ create_deck
    \/ load_decks
    \/ save_text
    \/ load_texts
    \/ get_text
    \/ save_settings
    \/ load_settings
    \/ cache_llm_response
    \/ get_cached_response

Spec == Init /\ [][Next]_vars

\* ------------------------------------------------- concurrent callers
\* The same handlers, one step per transaction call, run by two callers.
\* A write handler is rw_transaction(), then its body on the transaction's
\* private view, then commit(); dropping the transaction on an error
\* discards the view.
ConcCardTypes == {"Vocabulary"}

ConcSRSInputs(now) ==
    { SRSData(260, 1, 1, now + 1, FALSE), SRSData(218, 1, 0, now + 1, FALSE) }

InitialCard == save_card_card(<<1>>, <<1>>, "Vocabulary", 0)

InitConc ==
    /\ db = [EmptyDb EXCEPT !.cards[<<1>>] = InitialCard]
    /\ clock = 0
    /\ last = NoCall
    /\ nops = 0
    /\ pc = Idle
    /\ tx = NoTx
    /\ args = NoArgs
    /\ seen = NoSeen
    /\ snaps = NoSnaps
    /\ LearningViewDefault
    /\ PracticeViewDefault

rw_transaction_free_always(p) == TRUE

\* rw_transaction() returns once no other write transaction is open
rw_transaction_free(p) == \A o \in Procs : tx[o] = None

\* the store a read transaction of caller p observes
r_transaction_view(p) == db

SeenCard(p, id) ==
    LET hits == SelectSeq(seen[p], LAMBDA c : c.id = id)
    IN IF Len(hits) = 0 THEN None ELSE hits[1]

begin_write(p, a) ==
    /\ pc[p] = "idle"
    /\ nops < MaxConcOps
    /\ rw_transaction_free(p)
    /\ nops' = nops + 1
    /\ tx' = [tx EXCEPT ![p] = db]
    /\ args' = [args EXCEPT ![p] = a]
    /\ pc' = [pc EXCEPT ![p] = "body"]
    /\ UNCHANGED <<db, clock, last, seen, snaps>>
    /\ ViewUnchanged

c_save_card_begin(p) ==
    \E id \in Keys, deck_id \in Keys, card_type \in ConcCardTypes :
        begin_write(p, [id |-> id, deck_id |-> deck_id, card_type |-> card_type,
                        op |-> "save_card"])

\* A caller reviews a card it has listed: basis is the state it read and
\* computed srs_data from.
c_update_card_srs_begin(p) ==
    \E id \in Keys, srs_data \in ConcSRSInputs(clock) :
        /\ SeenCard(p, id) # None
        /\ begin_write(p, [id |-> id, srs_data |-> srs_data,
                           op |-> "update_card_srs", basis |-> SeenCard(p, id)])

body_result(p) ==
    IF args[p].op = "save_card"
    THEN save_card_body(tx[p], args[p].id, args[p].deck_id, args[p].card_type, clock)
    ELSE update_card_srs_body(tx[p], args[p].id, args[p].srs_data, clock)

c_body(p) ==
    /\ pc[p] = "body"
    /\ LET r == body_result(p) IN
       IF r.ok
       THEN /\ tx' = [tx EXCEPT ![p] = r.db]
            /\ pc' = [pc EXCEPT ![p] = "commit"]
            /\ UNCHANGED <<last, args>>
       ELSE /\ tx' = [tx EXCEPT ![p] = None]
            /\ pc' = [pc EXCEPT ![p] = "idle"]
            /\ last' = Call(args[p].op, args[p].id, 0, "QueryError", None)
            /\ args' = [args EXCEPT ![p] = None]
    /\ UNCHANGED <<db, clock, nops, seen, snaps>>
    /\ ViewUnchanged

c_commit(p) ==
    /\ pc[p] = "commit"
    /\ db' = tx[p]
    /\ tx' = [tx EXCEPT ![p] = None]
    /\ pc' = [pc EXCEPT ![p] = "idle"]
    /\ last' = Call(args[p].op, args[p].id, 0, "Ok", None)
    /\ args' = [args EXCEPT ![p] = None]
    /\ seen' = [seen EXCEPT ![p] = <<>>]
    /\ snaps' = Observe(tx[p], clock)
    /\ UNCHANGED <<clock, nops>>
    /\ ViewUnchanged

c_get_deck_cards(p) ==
    \E deck_id \in Keys :
        /\ pc[p] = "idle"
        /\ nops < MaxConcOps
        /\ nops' = nops + 1
        /\ seen' = [seen EXCEPT ![p] = get_deck_cards_read(r_transaction_view(p), deck_id)]
        /\ last' = Call("get_deck_cards", deck_id, 0, "Ok", seen'[p])
        /\ UNCHANGED <<db, clock, pc, tx, args, snaps>>
        /\ ViewUnchanged

NextConc ==
    \/ Tick
    \/ \E p \in Procs : c_save_card_begin(p)
    \/ \E p \in Procs : c_update_card_srs_begin(p)
    \/ \E p \in Procs : c_body(p)
    \/ \E p \in Procs : c_commit(p)
    \/ \E p \in Procs : c_get_deck_cards(p)

SpecConc == InitConc /\ [][NextConc]_vars

\* ------------------------------------------- load_decks, step by step
\* load_decks opens one read transaction for the scan of the decks table
\* and then calls get_deck_cards once per deck, which opens a read
\* transaction of its own each time; write handlers of the other caller
\* may commit in between.
InitialDecks ==
    [k \in Keys |-> Deck(k, "n1", "n1", 0, 0)]

InitDecks ==
    /\ db = [EmptyDb EXCEPT !.decks = InitialDecks]
    /\ clock = 0
    /\ last = NoCall
    /\ nops = 0
    /\ pc = Idle
    /\ tx = NoTx
    /\ args = NoArgs
    /\ seen = NoSeen
    /\ snaps = NoSnaps
    /\ LearningViewDefault
    /\ PracticeViewDefault

c_load_decks_begin(p) ==
    /\ pc[p] = "idle"
    /\ nops < MaxConcOps
    /\ nops' = nops + 1
    /\ args' = [args EXCEPT ![p] =
                  [decks |-> StoredSeq(r_transaction_view(p).decks),
                   op |-> "load_decks",
                   deck_infos |-> <<>>]]
    /\ pc' = [pc EXCEPT ![p] = "decks"]
    /\ snaps' = [snaps EXCEPT ![p] = {[db |-> db, clock |-> clock]}]
    /\ UNCHANGED <<db, clock, last, tx, seen>>
    /\ ViewUnchanged

\* one turn of the loop over the decks read by the scan
c_load_decks_deck(p) ==
    /\ pc[p] = "decks"
    /\ Len(args[p].deck_infos) < Len(args[p].decks)
    /\ LET deck == args[p].decks[Len(args[p].deck_infos) + 1]
           cards == get_deck_cards_read(r_transaction_view(p), deck.id)
       IN args' = [args EXCEPT ![p].deck_infos =
                      Append(@, DeckInfo(deck, cards, clock))]
    /\ UNCHANGED <<db, clock, last, nops, pc, tx, seen, snaps>>
    /\ ViewUnchanged

c_load_decks_return(p) ==
    /\ pc[p] = "decks"
    /\ Len(args[p].deck_infos) = Len(args[p].decks)
    /\ last' = Call("load_decks", <<>>, 0, "Ok", args[p].deck_infos)
    /\ pc' = [pc EXCEPT ![p] = "idle"]
    /\ args' = [args EXCEPT ![p] = None]
    /\ UNCHANGED <<db, clock, nops, tx, seen, snaps>>
    /\ ViewUnchanged

NextDecks ==
    \/ Tick
    \/ \E p \in Procs : c_save_card_begin(p)
    \/ \E p \in Procs : c_body(p)
    \/ \E p \in Procs : c_commit(p)
    \/ \E p \in Procs : c_load_decks_begin(p)
    \/ \E p \in Procs : c_load_decks_deck(p)
    \/ \E p \in Procs : c_load_decks_return(p)

SpecDecks == InitDecks /\ [][NextDecks]_vars

\* ------------------------------------------------------- learning view
\* LearningView::update, one action per message. A handler that returns
\* Task::done(m) puts m in `tasks`; the runtime hands m back to update at
\* some later step, after any messages the user sent in the meantime.
MaxMsgs == 4

QuestionInputs == {<<>>, <<" ">>, <<"a">>, <<"b", " ">>}

ErrorTexts == {"e1"}

StoreUnchanged == UNCHANGED <<db, clock, pc, tx, args, seen, snaps>>

Msg(type, arg) == [type |-> type, arg |-> arg]

WordExplanation(meaning) == [meaning |-> meaning, jlpt_level |-> "N5"]

generate_sample_explanation(word) ==
    WordExplanation(
        CASE word = "kyou" -> <<"today", "">>
          [] word = "nihongo" -> <<"Japanese language", "">>
          [] word = "benkyou" -> <<"study", "">>
          [] OTHER -> <<"Meaning of '{}' (simulated)", word>>)

RECURSIVE trim_start(_)
trim_start(s) ==
    IF s # <<>> /\ Head(s) = " " THEN trim_start(Tail(s)) ELSE s

RECURSIVE trim_end(_)
trim_end(s) ==
    IF s # <<>> /\ s[Len(s)] = " "
    THEN trim_end(SubSeq(s, 1, Len(s) - 1)) ELSE s

trim(s) == trim_end(trim_start(s))

SimulatedAnswer(question) ==
    [question |-> question, format |-> "This is a simulated answer to: '{}'"]

Spawn(pending, m) == pending (+) SetToBag({m})

Deselected ==
    [i \in 1..Len(word_segments) |->
        [word_segments[i] EXCEPT !.is_selected = FALSE]]

\* The handlers; `pending` is the bag of tasks left once the message being
\* handled is taken out of it.
h_SelectWord(index, pending) ==
    /\ IF index < Len(word_segments)
       THEN /\ word_segments' = [Deselected EXCEPT ![index + 1].is_selected = TRUE]
            /\ selected_word_index' = Some(index)
            /\ IF word_segments[index + 1].explanation = None
               THEN /\ loading_state' = "Loading"
                    /\ tasks' = Spawn(pending,
                          Msg("ExplanationReceived",
                              generate_sample_explanation(
                                  word_segments[index + 1].surface)))
               ELSE /\ loading_state' = "Loaded"
                    /\ tasks' = pending
       ELSE /\ word_segments' = Deselected
            /\ tasks' = pending
            /\ UNCHANGED <<selected_word_index, loading_state>>
    /\ UNCHANGED <<question_input, qa_history>>

h_RequestExplanation(pending) ==
    /\ IF selected_word_index # None
       THEN /\ loading_state' = "Loading"
            /\ IF selected_word_index.value < Len(word_segments)
               THEN tasks' = Spawn(pending,
                      Msg("ExplanationReceived",
                          generate_sample_explanation(
                              word_segments[selected_word_index.value + 1].surface)))
               ELSE tasks' = pending
       ELSE /\ tasks' = pending
            /\ UNCHANGED loading_state
    /\ UNCHANGED <<word_segments, selected_word_index, question_input,
                   qa_history>>

h_ExplanationReceived(explanation, pending) ==
    /\ IF /\ selected_word_index # None
          /\ selected_word_index.value < Len(word_segments)
       THEN /\ word_segments' =
                 [word_segments EXCEPT
                    ![selected_word_index.value + 1].explanation = explanation]
            /\ loading_state' = "Loaded"
       ELSE UNCHANGED <<word_segments, loading_state>>
    /\ tasks' = pending
    /\ UNCHANGED <<selected_word_index, question_input, qa_history>>

h_ExplanationError(error, pending) ==
    /\ loading_state' = "Error"
    /\ tasks' = pending
    /\ UNCHANGED <<word_segments, selected_word_index, question_input,
                   qa_history>>

h_QuestionInputChanged(input, pending) ==
    /\ question_input' = input
    /\ tasks' = pending
    /\ UNCHANGED <<word_segments, selected_word_index, loading_state,
                   qa_history>>

h_AskQuestion(pending) ==
    /\ IF trim(question_input) # <<>>
       THEN /\ question_input' = <<>>
            /\ tasks' = Spawn(pending,
                  Msg("QuestionAnswered", SimulatedAnswer(question_input)))
       ELSE /\ tasks' = pending
            /\ UNCHANGED question_input
    /\ UNCHANGED <<word_segments, selected_word_index, loading_state,
                   qa_history>>

h_QuestionAnswered(answer, pending) ==
    /\ IF Len(qa_history) > 0
       THEN qa_history' =
              [qa_history EXCEPT ![Len(qa_history)] = <<@[1], answer>>]
       ELSE UNCHANGED qa_history
    /\ tasks' = pending
    /\ UNCHANGED <<word_segments, selected_word_index, loading_state,
                   question_input>>

h_NextWord(pending) ==
    /\ IF /\ selected_word_index # None
          /\ selected_word_index.value < Len(word_segments) - 1
       THEN tasks' = Spawn(pending,
              Msg("SelectWord", [index |-> selected_word_index.value + 1]))
       ELSE tasks' = pending
    /\ UNCHANGED <<word_segments, selected_word_index, loading_state,
                   question_input, qa_history>>

h_PreviousWord(pending) ==
    /\ IF selected_word_index # None /\ selected_word_index.value > 0
       THEN tasks' = Spawn(pending,
              Msg("SelectWord", [index |-> selected_word_index.value - 1]))
       ELSE tasks' = pending
    /\ UNCHANGED <<word_segments, selected_word_index, loading_state,
                   question_input, qa_history>>

\* a message sent to the view from outside (a widget or the application)
Sent(type, q, arg) ==
    /\ nops < MaxMsgs
    /\ nops' = nops + 1
    /\ last' = Call(type, <<>>, q, "Ok", arg)
    /\ StoreUnchanged
    /\ UNCHANGED practiceVars

\* a message produced by a task, handed to update by the runtime
Delivered(m) ==
    /\ BagIn(m, tasks)
    /\ last' = Call(m.type, <<>>, 0, "Ok", m.arg)
    /\ UNCHANGED nops
    /\ StoreUnchanged
    /\ UNCHANGED practiceVars

Taken(m) == tasks (-) SetToBag({m})

\* SelectWord carries any usize: the indices of the segments and one past
\* the last.
SelectWord ==
    \E index \in 0..Len(Surfaces) :
        Sent("SelectWord", index, None) /\ h_SelectWord(index, tasks)

SelectWord_task ==
    \E m \in BagToSet(tasks) :
        /\ m.type = "SelectWord"
        /\ Delivered(m)
        /\ h_SelectWord(m.arg.index, Taken(m))

RequestExplanation ==
    Sent("RequestExplanation", 0, None) /\ h_RequestExplanation(tasks)

ExplanationReceived ==
    \E m \in BagToSet(tasks) :
        /\ m.type = "ExplanationReceived"
        /\ Delivered(m)
        /\ h_ExplanationReceived(m.arg, Taken(m))

ExplanationError ==
    \E error \in ErrorTexts :
        Sent("ExplanationError", 0, None) /\ h_ExplanationError(error, tasks)

QuestionInputChanged ==
    \E input \in QuestionInputs :
        Sent("QuestionInputChanged", 0, [input |-> input])
        /\ h_QuestionInputChanged(input, tasks)

AskQuestion == Sent("AskQuestion", 0, None) /\ h_AskQuestion(tasks)

QuestionAnswered ==
    \E m \in BagToSet(tasks) :
        /\ m.type = "QuestionAnswered"
        /\ Delivered(m)
        /\ h_QuestionAnswered(m.arg, Taken(m))

NextWord == Sent("NextWord", 0, None) /\ h_NextWord(tasks)

PreviousWord == Sent("PreviousWord", 0, None) /\ h_PreviousWord(tasks)

NextLearning ==
    \/ SelectWord
    \/ SelectWord_task
    \/ RequestExplanation
    \/ ExplanationReceived
    \/ ExplanationError
    \/ QuestionInputChanged
    \/ AskQuestion
    \/ QuestionAnswered
    \/ NextWord
    \/ PreviousWord

SpecLearning == Init /\ [][NextLearning]_vars

\* ------------------------------------------------------- practice view
\* PracticeView::update, one action per message.
MaxQuizMsgs == 5

\* a card shows its correct answer and three wrong answers
Answers == 0..3

Question == [kind |-> "Question"]
AnswerCorrect == [kind |-> "AnswerCorrect"]
AnswerIncorrect(selected, correct) ==
    [kind |-> "AnswerIncorrect", selected |-> selected, correct |-> correct]

QuizSent(type, q) ==
    /\ nops < MaxQuizMsgs
    /\ nops' = nops + 1
    /\ last' = Call(type, <<>>, q, "Ok", None)
    /\ StoreUnchanged
    /\ UNCHANGED learningVars

h_SelectAnswer_any_state(selected) ==
    /\ IF selected = 0
       THEN quiz_state' = AnswerCorrect /\ score' = score + 1
       ELSE quiz_state' = AnswerIncorrect(selected, 0) /\ UNCHANGED score
    /\ total_answered' = total_answered + 1
    /\ UNCHANGED <<current_index, show_romaji, show_examples>>

h_SelectAnswer(selected) ==
    /\ IF quiz_state = Question
       THEN /\ IF selected = 0
               THEN quiz_state' = AnswerCorrect /\ score' = score + 1
               ELSE /\ quiz_state' = AnswerIncorrect(selected, 0)
                    /\ UNCHANGED score
            /\ total_answered' = total_answered + 1
       ELSE UNCHANGED <<quiz_state, score, total_answered>>
    /\ UNCHANGED <<current_index, show_romaji, show_examples>>

ToggleRomaji ==
    /\ QuizSent("ToggleRomaji", 0)
    /\ show_romaji' = ~show_romaji
    /\ UNCHANGED <<current_index, show_examples, quiz_state, score,
                   total_answered>>

ToggleExamples ==
    /\ QuizSent("ToggleExamples", 0)
    /\ show_examples' = ~show_examples
    /\ UNCHANGED <<current_index, show_romaji, quiz_state, score,
                   total_answered>>

SelectAnswer ==
    \E selected \in Answers :
        QuizSent("SelectAnswer", selected) /\ h_SelectAnswer(selected)

NextCard ==
    /\ QuizSent("NextCard", 0)
    /\ IF current_index < NumCards - 1
       THEN /\ current_index' = current_index + 1
            /\ quiz_state' = Question
            /\ show_examples' = FALSE
       ELSE UNCHANGED <<current_index, quiz_state, show_examples>>
    /\ UNCHANGED <<show_romaji, score, total_answered>>

PreviousCard ==
    /\ QuizSent("PreviousCard", 0)
    /\ IF current_index > 0
       THEN /\ current_index' = current_index - 1
            /\ quiz_state' = Question
            /\ show_examples' = FALSE
       ELSE UNCHANGED <<current_index, quiz_state, show_examples>>
    /\ UNCHANGED <<show_romaji, score, total_answered>>

NextPractice ==
    \/ ToggleRomaji
    \/ ToggleExamples
    \/ SelectAnswer
    \/ NextCard
    \/ PreviousCard

SpecPractice == Init /\ [][NextPractice]_vars

\* ================================================================ claims
\* a step of Spec that runs the handler `op`
OpStep(op) == nops' = nops + 1 /\ last'.op = op

Round100(x) == (x + 50) \div 100

\* C1: update_card_srs on a card id that is not stored returns a QueryError
\* and leaves the whole store unchanged; the id is still absent afterwards.
C1_UpdateMissingCardFails ==
    [][\A id \in Keys :
         (OpStep("update_card_srs") /\ last'.key = id /\ db.cards[id] = None)
         => (last'.res = "QueryError" /\ db' = db /\ db'.cards[id] = None)]_vars

C1_Witness ==
    /\ last.op = "update_card_srs"
    /\ last.res = "QueryError"
    /\ db.cards[last.key] = None
    /\ \E k \in Keys : db.cards[k] # None

InsertKind(op) ==
    IF op = "save_card" THEN "cards"
    ELSE IF op = "create_deck" THEN "decks" ELSE "texts"

\* C2: save_card, create_deck and save_text called with a primary key that
\* is already stored for that kind fail with QueryError and leave the stored
\* record, and the rest of the store, exactly as it was.
C2_InsertConflictFails ==
    [][\A op \in {"save_card", "create_deck", "save_text"} :
         (OpStep(op) /\ db[InsertKind(op)][last'.key] # None)
         => (last'.res = "QueryError" /\ db' = db)]_vars

C2_Witness ==
    /\ last.op = "save_card"
    /\ last.res = "QueryError"
    /\ db.cards[last.key] # None
    /\ db.cards[last.key].srs_data.repetitions = 1
    /\ db.cards[last.key].updated_at > db.cards[last.key].created_at

\* C3 (as claimed): every stored card has ease_factor >= 1.3.
C3_EaseFactorAtLeastMin ==
    \A id \in Keys : db.cards[id] # None => db.cards[id].srs_data.ease_factor >= 130

\* C4: only update_card_srs changes the srs_data of a stored card; every
\* other handler leaves every stored card's srs_data as it was.
C4_OnlyUpdateChangesSrs ==
    [][\A id \in Keys :
         (db.cards[id] # None /\ ~OpStep("update_card_srs"))
         => (db'.cards[id] # None
             /\ db'.cards[id].srs_data = db.cards[id].srs_data)]_vars

C4_Witness ==
    /\ last.op = "save_card"
    /\ db.cards[last.key] # None
    /\ db.cards[last.key].srs_data.is_new = FALSE

\* C5 (as claimed): a caller that read a card, computed a new SRS state from
\* it and commits update_card_srs successfully, overwrites exactly the state
\* it read (otherwise the update of another caller is lost silently).
C5_NoLostUpdate ==
    [][\A p \in Procs :
         (pc[p] = "commit" /\ pc'[p] = "idle"
          /\ args[p].op = "update_card_srs" /\ args[p].basis # None)
         => db.cards[args[p].id] = args[p].basis]_vars

C7_FreshCardState ==
    [][\A id \in Keys :
         (OpStep("save_card") /\ last'.key = id /\ last'.res = "Ok")
         => /\ db'.cards[id] # None
            /\ db'.cards[id].id = id
            /\ db'.cards[id].srs_data =
                 [ease_factor |-> 250, interval |-> 0, repetitions |-> 0,
                  next_review |-> clock, is_new |-> TRUE]
            /\ db'.cards[id].created_at = clock
            /\ db'.cards[id].updated_at = clock]_vars

C7_Witness ==
    /\ last.op = "save_card"
    /\ last.res = "Ok"
    /\ clock > 0
    /\ db.cards[last.key].card_type = "Grammar"
    /\ db.cards[last.key].created_at = clock
    /\ db.cards[last.key].srs_data.is_new

\* C8 (as claimed): a successful review recorded with quality q < 3 leaves
\* the card with repetitions = 0, interval = 1 and next_review one day after
\* the review time.
C8_FailingReviewResets ==
    [][(OpStep("update_card_srs") /\ last'.res = "Ok" /\ last'.q < 3)
       => /\ db'.cards[last'.key].srs_data.repetitions = 0
          /\ db'.cards[last'.key].srs_data.interval = 1
          /\ db'.cards[last'.key].srs_data.next_review = clock + 1]_vars

\* C9 (as claimed): a review recorded with quality q >= 3 increases
\* repetitions by exactly one and sets next_review strictly after the review
\* time.
C9_PassingReviewIncrements ==
    [][(OpStep("update_card_srs") /\ last'.res = "Ok" /\ last'.q >= 3)
       => /\ db'.cards[last'.key].srs_data.repetitions
               = db.cards[last'.key].srs_data.repetitions + 1
          /\ db'.cards[last'.key].srs_data.next_review > clock]_vars

\* C10 (as claimed): after a review with q >= 3 the interval is 1 when the
\* new repetition count is 1, 6 when it is 2, and otherwise
\* round(old interval * new ease factor); next_review is the review time
\* plus the new interval.
C10_IntervalGrowth ==
    [][(OpStep("update_card_srs") /\ last'.res = "Ok" /\ last'.q >= 3)
       => LET old == db.cards[last'.key].srs_data
              new == db'.cards[last'.key].srs_data
          IN /\ new.interval =
                  (IF new.repetitions = 1 THEN 1
                   ELSE IF new.repetitions = 2 THEN 6
                   ELSE Round100(old.interval * new.ease_factor))
             /\ new.next_review = clock + new.interval]_vars

\* stored cards whose deck_id is exactly deck_id
CardsOfDeck(d, deck_id) ==
    {k \in Keys : d.cards[k] # None /\ d.cards[k].deck_id = deck_id}

RECURSIVE SumTotal(_)
SumTotal(infos) ==
    IF Len(infos) = 0 THEN 0 ELSE Head(infos).total_cards + SumTotal(Tail(infos))

\* change of the ease factor, in hundredths, for a review of quality q
EaseDelta(q) == 10 - (5 - q) * (8 + (5 - q) * 2)

Max(a, b) == IF a >= b THEN a ELSE b

\* C11 (as claimed): every successful review of quality q leaves the card
\* with ease factor max(1.3, old ease factor + 0.1 - (5-q)*(0.08 + (5-q)*0.02)),
\* so a failing review (q < 3) never increases it.
C11_EaseFactorUpdate ==
    [][(OpStep("update_card_srs") /\ last'.res = "Ok")
       => LET old == db.cards[last'.key].srs_data
              new == db'.cards[last'.key].srs_data
          IN /\ new.ease_factor = Max(130, old.ease_factor + EaseDelta(last'.q))
             /\ (last'.q < 3 => new.ease_factor <= old.ease_factor)]_vars

\* C12 (as claimed): after a successful review the card's is_new flag is
\* false, and a card whose is_new flag is false keeps it false.
C12_IsNewClearedForGood ==
    [][/\ (OpStep("update_card_srs") /\ last'.res = "Ok")
          => db'.cards[last'.key].srs_data.is_new = FALSE
       /\ \A id \in Keys :
            (db.cards[id] # None /\ db.cards[id].srs_data.is_new = FALSE)
            => (db'.cards[id] # None /\ db'.cards[id].srs_data.is_new = FALSE)]_vars

\* C13 (as claimed): every DeckInfo returned by load_decks has
\* due_cards <= total_cards and new_cards <= total_cards, and a deck that no
\* stored card belongs to reports total_cards = due_cards = new_cards = 0.
C13_DeckInfoBounds ==
    last.op = "load_decks" =>
        \A i \in 1..Len(last.val) :
            /\ last.val[i].due_cards <= last.val[i].total_cards
            /\ last.val[i].new_cards <= last.val[i].total_cards
            /\ CardsOfDeck(db, last.val[i].id) = {}
               => /\ last.val[i].total_cards = 0
                  /\ last.val[i].due_cards = 0
                  /\ last.val[i].new_cards = 0

\* C14 (as claimed): load_decks returns one DeckInfo per stored deck, whose
\* total_cards, due_cards and new_cards count the deck's own cards, those of
\* them with next_review <= now, and those of them with is_new set.
C14_DeckInfoCounts ==
    [][OpStep("load_decks")
       => /\ Len(last'.val) = Cardinality({k \in Keys : db.decks[k] # None})
          /\ \A i, j \in 1..Len(last'.val) :
               i # j => last'.val[i].id # last'.val[j].id
          /\ \A i \in 1..Len(last'.val) :
               LET info == last'.val[i]
                   own == CardsOfDeck(db, info.id)
               IN /\ db.decks[info.id] # None
                  /\ info.total_cards = Cardinality(own)
                  /\ info.due_cards = Cardinality(
                       {k \in own : db.cards[k].srs_data.next_review <= clock})
                  /\ info.new_cards = Cardinality(
                       {k \in own : db.cards[k].srs_data.is_new})]_vars

\* C15 (as claimed): a card is returned by get_deck_cards only for the deck
\* whose id equals its deck_id, and load_decks counts every card in
\* total_cards of at most one deck.
C15_CardInExactlyOneDeck ==
    /\ last.op = "get_deck_cards"
       => \A i \in 1..Len(last.val) : last.val[i].deck_id = last.key
    /\ last.op = "load_decks"
       => SumTotal(last.val) <= Cardinality({k \in Keys : db.cards[k] # None})

\* native_model ids of the five record kinds
ModelId == [cards |-> 1, decks |-> 2, texts |-> 3, cache |-> 4, settings |-> 5]

Kinds == DOMAIN ModelId

WriteKind(op) ==
    IF op \in {"save_card", "update_card_srs"} THEN "cards"
    ELSE IF op = "create_deck" THEN "decks"
    ELSE IF op = "save_text" THEN "texts"
    ELSE IF op = "cache_llm_response" THEN "cache" ELSE "settings"

WriteOps ==
    {"save_card", "update_card_srs", "create_deck", "save_text",
     "cache_llm_response", "save_settings"}

\* value held by a cache or settings entry, as the read handlers return it
EntryValue(kind, e) ==
    IF e = None THEN None
    ELSE [value |-> IF kind = "cache" THEN e.response ELSE e.value]

\* C16: cache_llm_response / save_settings always succeed and leave exactly
\* the written value under the key, touching no other key of that kind; no
\* other handler changes the entries; get_cached_response / load_settings
\* return the value stored under the key.  Hence the last write wins.
C16_LastWriteWins ==
    [][\A w \in {[kind |-> "cache", op |-> "cache_llm_response",
                  rd |-> "get_cached_response"],
                 [kind |-> "settings", op |-> "save_settings",
                  rd |-> "load_settings"]} :
         /\ OpStep(w.op)
            => /\ last'.res = "Ok"
               /\ EntryValue(w.kind, db'[w.kind][last'.key]) = last'.val
               /\ \A k \in Keys \ {last'.key} : db'[w.kind][k] = db[w.kind][k]
         /\ ~OpStep(w.op) => db'[w.kind] = db[w.kind]
         /\ OpStep(w.rd)
            => last'.val = EntryValue(w.kind, db[w.kind][last'.key])]_vars

C16_Witness ==
    /\ last.op = "get_cached_response"
    /\ last.val = [value |-> "v2"]
    /\ \E k \in Keys \ {last.key} :
         /\ db.cache[k] # None
         /\ db.cache[k].response = "v1"
         /\ db.cache[k].created_at < db.cache[last.key].created_at

\* C17: load_settings, get_cached_response and get_text on a key that is not
\* stored return Ok(None).
C17_AbsentKeyReadsNone ==
    \A r \in {[kind |-> "settings", op |-> "load_settings"],
              [kind |-> "cache", op |-> "get_cached_response"],
              [kind |-> "texts", op |-> "get_text"]} :
        (last.op = r.op /\ db[r.kind][last.key] = None)
        => (last.res = "Ok" /\ last.val = None)

C17_Witness ==
    /\ last.op = "load_settings"
    /\ last.val = None
    /\ db.settings[last.key] = None
    /\ \E k \in Keys : db.settings[k] # None

\* C18: a text saved successfully is stored equal in all its fields to the
\* record passed, stays so until a later successful write, and get_text
\* returns the stored record; get_deck_cards returns the stored cards of the
\* deck unaltered.
C18_RoundTrip ==
    [][/\ (OpStep("save_text") /\ last'.res = "Ok")
          => db'.texts[last'.key] = last'.val
       /\ ~(OpStep("save_text") /\ last'.res = "Ok") => db'.texts = db.texts
       /\ (OpStep("get_text") /\ db.texts[last'.key] # None)
          => last'.val = db.texts[last'.key]
       /\ OpStep("get_deck_cards")
          => /\ \A i \in 1..Len(last'.val) :
                  last'.val[i] = db.cards[last'.val[i].id]
             /\ \A k \in CardsOfDeck(db, last'.key) :
                  \E i \in 1..Len(last'.val) : last'.val[i] = db.cards[k]]_vars

C18_Witness ==
    /\ last.op = "get_text"
    /\ last.val # None
    /\ last.val.id = last.key
    /\ last.val.title = "n2"
    /\ last.val.original_text = <<1, 2>>
    /\ last.val.created_at < clock

\* C19: the record kinds have distinct model ids and a key is scoped to its
\* kind: a write handler changes records of its own kind only, an insert
\* succeeds whenever the key is free in its own kind, and a read of an
\* absent key returns None whatever other kinds hold under that key.
C19_KeysScopedPerKind ==
    [][/\ \A a, b \in Kinds : a # b => ModelId[a] # ModelId[b]
       /\ \A op \in WriteOps :
            OpStep(op) => \A kind \in Kinds \ {WriteKind(op)} : db'[kind] = db[kind]
       /\ \A op \in {"save_card", "create_deck", "save_text"} :
            (OpStep(op) /\ db[InsertKind(op)][last'.key] = None)
            => (last'.res = "Ok" /\ db'[InsertKind(op)][last'.key] # None)
       /\ \A r \in {[kind |-> "settings", op |-> "load_settings"],
                    [kind |-> "cache", op |-> "get_cached_response"],
                    [kind |-> "texts", op |-> "get_text"]} :
            (OpStep(r.op) /\ db[r.kind][last'.key] = None) => last'.val = None]_vars

C19_Witness ==
    /\ last.op = "create_deck"
    /\ last.res = "Ok"
    /\ db.decks[last.key] # None
    /\ db.cards[last.key] # None
    /\ db.settings[last.key] # None

\* C20: a successful update_card_srs changes only srs_data and updated_at of
\* the card, keeps every other card and the set of stored ids, and stored
\* cards never share an id.
C20_CardIdentityImmutable ==
    [][/\ (OpStep("update_card_srs") /\ last'.res = "Ok")
          => LET old == db.cards[last'.key]
                 new == db'.cards[last'.key]
             IN /\ new.id = old.id
                /\ new.deck_id = old.deck_id
                /\ new.card_type = old.card_type
                /\ new.created_at = old.created_at
                /\ new = [old EXCEPT !.srs_data = new.srs_data,
                                     !.updated_at = new.updated_at]
                /\ \A k \in Keys \ {last'.key} : db'.cards[k] = db.cards[k]
                /\ {k \in Keys : db'.cards[k] # None}
                     = {k \in Keys : db.cards[k] # None}
       /\ \A k1, k2 \in Keys :
            (k1 # k2 /\ db'.cards[k1] # None /\ db'.cards[k2] # None)
            => db'.cards[k1].id # db'.cards[k2].id]_vars

C20_Witness ==
    /\ last.op = "update_card_srs"
    /\ last.res = "Ok"
    /\ db.cards[last.key].updated_at > db.cards[last.key].created_at
    /\ db.cards[last.key].srs_data.repetitions = 2
    /\ \E k \in Keys \ {last.key} : db.cards[k] # None

\* C21: load_texts returns one TextInfo per stored text, each preview being
\* the first min(100, length) characters of that text's original_text, and
\* changes nothing in the store; get_text then still returns the stored
\* text with its full original_text.
C21_PreviewIsProjection ==
    [][/\ OpStep("load_texts")
          => /\ db' = db
             /\ Len(last'.val) = Cardinality({k \in Keys : db.texts[k] # None})
             /\ \A i, j \in 1..Len(last'.val) :
                  last'.val[i].id = last'.val[j].id => i = j
             /\ \A i \in 1..Len(last'.val) :
                  LET t == db.texts[last'.val[i].id] IN
                  /\ t # None
                  /\ last'.val[i].preview
                       = SubSeq(t.original_text, 1,
                                IF Len(t.original_text) < 100
                                THEN Len(t.original_text) ELSE 100)
       /\ (OpStep("get_text") /\ db.texts[last'.key] # None)
          => /\ db' = db
             /\ last'.val.original_text = db.texts[last'.key].original_text
      ]_vars

C21_Witness ==
    /\ last.op = "load_texts"
    /\ Len(last.val) = 2
    /\ \E i, j \in 1..2 :
         /\ Len(last.val[i].preview) = 100
         /\ Len(db.texts[last.val[i].id].original_text) = 101
         /\ Len(last.val[j].preview) = 2
         /\ db.texts[last.val[j].id].original_text = <<1, 2>>

\* C22: a card is created with created_at = updated_at = the time of the
\* call; a successful update sets updated_at to the time of the update and
\* leaves created_at alone; no step changes the created_at of a stored card;
\* every stored card has updated_at >= created_at.
C22_Timestamps ==
    [][/\ (OpStep("save_card") /\ last'.res = "Ok")
          => /\ db'.cards[last'.key].created_at = clock
             /\ db'.cards[last'.key].updated_at = clock
       /\ (OpStep("update_card_srs") /\ last'.res = "Ok")
          => /\ db'.cards[last'.key].updated_at = clock
             /\ db'.cards[last'.key].created_at = db.cards[last'.key].created_at
       /\ \A k \in Keys :
            db.cards[k] # None
            => /\ db'.cards[k] # None
               /\ db'.cards[k].created_at = db.cards[k].created_at
       /\ \A k \in Keys :
            db'.cards[k] # None
            => db'.cards[k].updated_at >= db'.cards[k].created_at
       /\ clock' >= clock]_vars

C22_Witness ==
    /\ last.op = "update_card_srs"
    /\ last.res = "Ok"
    /\ clock = 1
    /\ db.cards[last.key].created_at = 0
    /\ db.cards[last.key].updated_at = 1

\* C23: get_deck_cards for a deck id that no stored card carries (the deck
\* stored or not) returns the empty sequence as Ok; load_decks with no deck
\* stored and load_texts with no text stored return the empty sequence as
\* Ok.
C23_EmptyResults ==
    /\ (last.op = "get_deck_cards" /\ CardsOfDeck(db, last.key) = {})
       => (last.res = "Ok" /\ last.val = <<>>)
    /\ (last.op = "load_decks" /\ \A k \in Keys : db.decks[k] = None)
       => (last.res = "Ok" /\ last.val = <<>>)
    /\ (last.op = "load_texts" /\ \A k \in Keys : db.texts[k] = None)
       => (last.res = "Ok" /\ last.val = <<>>)

\* C25: every stored card's deck_id is the id of a stored deck, and the
\* card is counted by load_decks in the DeckInfo of that deck.
C25_DeckIdNamesStoredDeck ==
    \A k \in Keys :
        db.cards[k] # None
        => /\ db.decks[db.cards[k].deck_id] # None
           /\ \E i \in 1..Len(load_decks_read(db, clock)) :
                /\ load_decks_read(db, clock)[i].id = db.cards[k].deck_id
                /\ load_decks_read(db, clock)[i].total_cards >= 1

\* C26: when save_card succeeds with the id of a stored deck, load_decks
\* right after it reports that deck with total_cards, due_cards and
\* new_cards each one greater than load_decks right before it, and reports
\* every other deck exactly as before.
C26_FreshCardDueAndNew ==
    [][(/\ OpStep("save_card")
        /\ last'.res = "Ok"
        /\ db.decks[db'.cards[last'.key].deck_id] # None)
       => LET before == load_decks_read(db, clock)
              after == load_decks_read(db', clock)
              d == db'.cards[last'.key].deck_id
          IN /\ Len(after) = Len(before)
             /\ \A i \in 1..Len(before) :
                  /\ after[i].id = before[i].id
                  /\ IF before[i].id = d
                     THEN /\ after[i].total_cards = before[i].total_cards + 1
                          /\ after[i].due_cards = before[i].due_cards + 1
                          /\ after[i].new_cards = before[i].new_cards + 1
                     ELSE after[i] = before[i]]_vars

\* C24: the list a load_decks call returns is the deck list of one
\* committed store that existed between the call's start and its return,
\* with every deck's counts being the counts of that same store (taken at
\* some time during the call).
C24_LoadDecksOneSnapshot ==
    [][\A p \in Procs :
         (pc[p] = "decks" /\ pc'[p] = "idle")
         => \E s \in snaps[p] :
              /\ Len(last'.val) = Len(load_decks_read(s.db, s.clock))
              /\ \A i \in 1..Len(last'.val) :
                   \E t \in snaps[p] :
                      last'.val[i] = load_decks_read(s.db, t.clock)[i]]_vars

\* C27: an explanation stored on a word segment is the explanation that
\* was generated for that segment's word.
C27_ExplanationOnItsWord ==
    \A i \in 1..Len(word_segments) :
        word_segments[i].explanation # None
        => word_segments[i].explanation
             = generate_sample_explanation(word_segments[i].surface)

\* C28: once the answer to a question asked with non-blank input has been
\* delivered, the last entry of qa_history is the pair of that question
\* and that answer.
C28_QuestionKeptInHistory ==
    last.op = "QuestionAnswered"
    => /\ Len(qa_history) > 0
       /\ qa_history[Len(qa_history)] = <<last.val.question, last.val>>

\* C29: at most one word segment is selected, and the segment at index i
\* is selected exactly when selected_word_index is Some(i) with i inside
\* word_segments.
C29_SelectionInvariant ==
    /\ Cardinality({i \in 1..Len(word_segments) :
                       word_segments[i].is_selected}) <= 1
    /\ \A i \in 0..(Len(word_segments) - 1) :
         word_segments[i + 1].is_selected <=> selected_word_index = Some(i)
    /\ selected_word_index # None
       => selected_word_index.value < Len(word_segments)

\* C30: score never exceeds total_answered; SelectAnswer received while
\* the quiz state is not Question changes nothing in the view; SelectAnswer(s)
\* received in state Question adds one to total_answered, adds one to score
\* exactly when s = 0, and sets the state to AnswerCorrect when s = 0 and
\* to AnswerIncorrect{selected: s, correct: 0} otherwise.
C30_QuizScoring ==
    [][/\ score <= total_answered
       /\ score' <= total_answered'
       /\ OpStep("SelectAnswer")
          => IF quiz_state # Question
             THEN UNCHANGED practiceVars
             ELSE /\ total_answered' = total_answered + 1
                  /\ score' = score + (IF last'.q = 0 THEN 1 ELSE 0)
                  /\ quiz_state' = (IF last'.q = 0
                                    THEN [kind |-> "AnswerCorrect"]
                                    ELSE [kind |-> "AnswerIncorrect",
                                          selected |-> last'.q,
                                          correct |-> 0])
                  /\ UNCHANGED <<current_index, show_romaji, show_examples>>
      ]_vars

C30_Witness ==
    /\ last.op = "SelectAnswer"
    /\ last.q = 2
    /\ quiz_state = [kind |-> "AnswerIncorrect", selected |-> 2, correct |-> 0]
    /\ score = 1
    /\ total_answered = 2
    /\ current_index = 1

====
